---- MODULE Spec2Model ----
(***************************************************************************)
(* rc_align.py: computes the next semantic version of a project from its   *)
(* git tags and conventional-commit messages and appends it to the file    *)
(* named by GITHUB_OUTPUT.                                                 *)
(*                                                                         *)
(* A Python str is modelled as a sequence of one-character strings, so     *)
(* that formatting, parsing, splitting and regular-expression matching    *)
(* are computed and not assumed.                                           *)
(***************************************************************************)
EXTENDS Integers, Sequences, FiniteSets, TLC

VARIABLES
    pc,            \* position of the running call
    branch,        \* os.environ.get("GITHUB_REF_NAME")
    github_output, \* state of os.environ["GITHUB_OUTPUT"]: "ok", "unset", "unwritable"
    tags,          \* the v* tags the tag query listed, most recently created first
    commits,       \* the commits since the baseline the log queries walk, most recent first
    sink0,         \* content of the output file before the run
    sink,          \* content of the output file (sequence of lines)
    printed,       \* what the run printed (message kinds)
    calls,         \* the git queries issued so far (argument records and outcome)
    exit_status,   \* <<>> while running, <<code>> once the process has ended
    raised,        \* the exception the run caught, or "none"
    tag, from_stable, depth,   \* locals of main, and arguments and results of the
    major, minor, patch, rc,   \* functions when they are called on their own
    is_breaking, is_feat,
    raw_subjects, logs,        \* what the log queries returned
    next_ver

vars == <<pc, branch, github_output, tags, commits, sink0, sink,
          printed, calls, exit_status, raised, tag, from_stable, depth,
          major, minor, patch, rc, is_breaking, is_feat,
          raw_subjects, logs, next_ver>>

-----------------------------------------------------------------------------
(* Bounds of the model *)

MaxTags == 2
MaxCommits == 2
MaxNum == 2
BigNum == 10
MaxDepth == 3
MaxSubjects == 3
MaxMessages == 2

-----------------------------------------------------------------------------
(* Python values and str operations *)

NL == "\n"
None == <<"<None>">>

\* `not x` for x a str or None
Falsy(x) == x = None \/ x = <<>>

\* `sub in s`
Contains(s, sub) ==
    \E i \in 0..(Len(s) - Len(sub)) : SubSeq(s, i + 1, i + Len(sub)) = sub

IsSpace(c) == c \in {" ", NL, "\t"}

\* s.strip()
Strip(s) ==
    IF \A k \in 1..Len(s) : IsSpace(s[k]) THEN <<>>
    ELSE LET a == CHOOSE i \in 1..Len(s) :
                     ~IsSpace(s[i]) /\ \A k \in 1..(i - 1) : IsSpace(s[k])
             b == CHOOSE j \in 1..Len(s) :
                     ~IsSpace(s[j]) /\ \A k \in (j + 1)..Len(s) : IsSpace(s[k])
         IN  SubSeq(s, a, b)

\* s.split('\n'): the list of lines, <<"">> for the empty string
RECURSIVE Split(_)
Split(s) ==
    IF \A k \in 1..Len(s) : s[k] # NL THEN <<s>>
    ELSE LET i == CHOOSE j \in 1..Len(s) :
                     s[j] = NL /\ \A k \in 1..(j - 1) : s[k] # NL
         IN  <<SubSeq(s, 1, i - 1)>> \o Split(SubSeq(s, i + 1, Len(s)))

\* s.lstrip('v'): every leading "v" is removed
RECURSIVE LStripV(_)
LStripV(s) ==
    IF s # <<>> /\ Head(s) = "v" THEN LStripV(Tail(s)) ELSE s

DigitChars == <<"0", "1", "2", "3", "4", "5", "6", "7", "8", "9">>

IsDigit(c) == \E d \in 1..10 : DigitChars[d] = c

DigitVal(c) == (CHOOSE d \in 1..10 : DigitChars[d] = c) - 1

\* int(s) for a string of decimal digits
RECURSIVE StrToInt(_)
StrToInt(s) ==
    IF s = <<>> THEN 0
    ELSE 10 * StrToInt(SubSeq(s, 1, Len(s) - 1)) + DigitVal(s[Len(s)])

\* f"{n}" for an int n >= 0
RECURSIVE IntToStr(_)
IntToStr(n) ==
    IF n < 10 THEN <<DigitChars[n + 1]>>
    ELSE IntToStr(n \div 10) \o <<DigitChars[(n % 10) + 1]>>

-----------------------------------------------------------------------------
(* Regular expressions, as the re module matches them.  Ends(re, s, i, ml)  *)
(* is the set of offsets at which a match of re starting at offset i of s   *)
(* can end; ml is re.MULTILINE.                                             *)

Lit(s) == [t |-> "lit", s |-> s]
Cat(rs) == [t |-> "cat", rs |-> rs]
Alt(rs) == [t |-> "alt", rs |-> rs]
Opt(r) == [t |-> "opt", r |-> r]
DotStar == [t |-> "dotstar"]
Digits == [t |-> "digits"]
Bol == [t |-> "bol"]
Eol == [t |-> "eol"]

RECURSIVE Ends(_, _, _, _)
RECURSIVE EndsCat(_, _, _, _, _)

Ends(re, s, i, ml) ==
    CASE re.t = "lit" ->
            IF i + Len(re.s) <= Len(s) /\ SubSeq(s, i + 1, i + Len(re.s)) = re.s
            THEN {i + Len(re.s)} ELSE {}
      [] re.t = "bol" ->
            IF i = 0 \/ (ml /\ s[i] = NL) THEN {i} ELSE {}
      [] re.t = "eol" ->
            IF \/ i = Len(s)
               \/ i = Len(s) - 1 /\ s[Len(s)] = NL
               \/ ml /\ i < Len(s) /\ s[i + 1] = NL
            THEN {i} ELSE {}
      [] re.t = "dotstar" ->
            {j \in i..Len(s) : \A k \in (i + 1)..j : s[k] # NL}
      [] re.t = "digits" ->
            {j \in (i + 1)..Len(s) : \A k \in (i + 1)..j : IsDigit(s[k])}
      [] re.t = "opt" -> {i} \cup Ends(re.r, s, i, ml)
      [] re.t = "alt" ->
            UNION {Ends(re.rs[k], s, i, ml) : k \in 1..Len(re.rs)}
      [] re.t = "cat" -> EndsCat(re.rs, 1, s, {i}, ml)

EndsCat(rs, k, s, starts, ml) ==
    IF k > Len(rs) THEN starts
    ELSE EndsCat(rs, k + 1, s, UNION {Ends(rs[k], s, p, ml) : p \in starts}, ml)

\* re.match(re, s): a match at the start of s
re_match(re, s) == Ends(re, s, 0, FALSE) # {}

\* re.search(re, s, re.MULTILINE): a match anywhere in s
re_search_multiline(re, s) == \E i \in 0..Len(s) : Ends(re, s, i, TRUE) # {}

\* the (\d+) groups of a matched version pattern: its maximal digit runs
RECURSIVE DigitRuns(_)
DigitRuns(s) ==
    IF s = <<>> THEN <<>>
    ELSE IF ~IsDigit(Head(s)) THEN DigitRuns(Tail(s))
    ELSE LET n == CHOOSE m \in 1..Len(s) :
                     /\ \A k \in 1..m : IsDigit(s[k])
                     /\ m = Len(s) \/ ~IsDigit(s[m + 1])
         IN  <<SubSeq(s, 1, n)>> \o DigitRuns(SubSeq(s, n + 1, Len(s)))

-----------------------------------------------------------------------------
(* Constants of rc_align.py *)

BOT_COMMIT_MSG == <<"c","h","o","r","e",":"," ","e","n","f","o","r","c","e"," ","c","o","r","r","e","c","t"," ","r","c"," ","v","e","r","s","i","o","n">>
BOT_FOOTER_TAG == <<"R","e","l","e","a","s","e","-","A","s",":">>

RC_MARKER == <<"-","r","c">>
BREAKING_MARKER == <<"B","R","E","A","K","I","N","G"," ","C","H","A","N","G","E">>
HEAD_REV == <<"H","E","A","D">>
INITIAL_STABLE == <<"0",".","1",".","0">>
OUTPUT_KEY == <<"n","e","x","t","_","v","e","r","s","i","o","n","=">>

\* (\(.*\))?
scope_regex == Opt(Cat(<<Lit(<<"(">>), DotStar, Lit(<<")">>)>>))

\* ^chore(\(.*\))?: release
release_regex ==
    Cat(<<Bol, Lit(<<"c","h","o","r","e">>), scope_regex,
          Lit(<<":"," ","r","e","l","e","a","s","e">>)>>)

\* ^v(\d+)\.(\d+)\.(\d+)-rc\.(\d+)$
rc_regex ==
    Cat(<<Bol, Lit(<<"v">>), Digits, Lit(<<".">>), Digits, Lit(<<".">>), Digits,
          Lit(<<"-","r","c",".">>), Digits, Eol>>)

\* ^v(\d+)\.(\d+)\.(\d+)$
stable_regex ==
    Cat(<<Bol, Lit(<<"v">>), Digits, Lit(<<".">>), Digits, Lit(<<".">>), Digits,
          Eol>>)

\* ^(feat|fix|refactor)(\(.*\))?!:
breaking_regex ==
    Cat(<<Bol,
          Alt(<<Lit(<<"f","e","a","t">>), Lit(<<"f","i","x">>),
                Lit(<<"r","e","f","a","c","t","o","r">>)>>),
          scope_regex, Lit(<<"!",":">>)>>)

\* ^feat(\(.*\))?!?: a breaking feature also counts as a feature
feat_regex_with_bang ==
    Cat(<<Bol, Lit(<<"f","e","a","t">>), scope_regex, Opt(Lit(<<"!">>)), Lit(<<":">>)>>)

\* ^feat(\(.*\))?:
feat_regex == Cat(<<Bol, Lit(<<"f","e","a","t">>), scope_regex, Lit(<<":">>)>>)

-----------------------------------------------------------------------------
(* parse_semver *)

parse_semver(t) ==
    IF Falsy(t) THEN <<0, 0, 0, 0>>
    ELSE IF re_match(rc_regex, t)
         THEN LET m_rc == DigitRuns(t)
              IN  <<StrToInt(m_rc[1]), StrToInt(m_rc[2]), StrToInt(m_rc[3]),
                    StrToInt(m_rc[4])>>
    ELSE IF re_match(stable_regex, t)
         THEN LET m_stable == DigitRuns(t)
              IN  <<StrToInt(m_stable[1]), StrToInt(m_stable[2]),
                    StrToInt(m_stable[3]), 0>>
    ELSE <<0, 0, 0, 0>>

-----------------------------------------------------------------------------
(* calculate_next_version *)

RcVersion(ma, mi, pa, n) ==
    IntToStr(ma) \o <<".">> \o IntToStr(mi) \o <<".">> \o IntToStr(pa)
        \o <<"-","r","c",".">> \o IntToStr(n)

\* a breaking change that continues the release-candidate count
calculate_next_version_adds_rc(ma, mi, pa, r, d, breaking, feat, stable) ==
    IF breaking THEN RcVersion(ma + 1, 0, 0, IF stable THEN d ELSE r + d)
    ELSE IF feat
         THEN IF stable \/ pa > 0 THEN RcVersion(ma, mi + 1, 0, d)
              ELSE RcVersion(ma, mi, pa, r + d)
    ELSE IF stable THEN RcVersion(ma, mi, pa + 1, d)
    ELSE RcVersion(ma, mi, pa, r + d)

\* a feature that bumps the minor version whenever the baseline is a candidate
calculate_next_version_always_minor(ma, mi, pa, r, d, breaking, feat, stable) ==
    IF breaking THEN RcVersion(ma + 1, 0, 0, d)
    ELSE IF feat THEN RcVersion(ma, mi + 1, 0, d)
    ELSE IF stable THEN RcVersion(ma, mi, pa + 1, d)
    ELSE RcVersion(ma, mi, pa, r + d)

\* a candidate baseline whose count restarts at depth instead of rc + depth
calculate_next_version_restarts_rc(ma, mi, pa, r, d, breaking, feat, stable) ==
    IF breaking THEN RcVersion(ma + 1, 0, 0, d)
    ELSE IF feat
         THEN IF stable \/ pa > 0 THEN RcVersion(ma, mi + 1, 0, d)
              ELSE RcVersion(ma, mi, pa, d)
    ELSE IF stable THEN RcVersion(ma, mi, pa + 1, d)
    ELSE RcVersion(ma, mi, pa, d)

calculate_next_version(ma, mi, pa, r, d, breaking, feat, stable) ==
    IF breaking THEN RcVersion(ma + 1, 0, 0, d)
    ELSE IF feat
         THEN IF stable \/ pa > 0 THEN RcVersion(ma, mi + 1, 0, d)
              ELSE RcVersion(ma, mi, pa, r + d)
    ELSE IF stable THEN RcVersion(ma, mi, pa + 1, d)
    ELSE RcVersion(ma, mi, pa, r + d)

-----------------------------------------------------------------------------
(* The git binary: what subprocess.run(["git"] + args) produces.  A run is  *)
(* a record [kind, stdout]: kind "ok" (exit 0), "nonzero" (git failed and   *)
(* wrote nothing to stdout) or "oserror" (the process could not be run).    *)

RECURSIVE JoinWith(_, _)
JoinWith(lines, sep) ==
    IF lines = <<>> THEN <<>>
    ELSE IF Len(lines) = 1 THEN lines[1]
    ELSE lines[1] \o sep \o JoinWith(Tail(lines), sep)

RECURSIVE EachLine(_)
EachLine(lines) ==
    IF lines = <<>> THEN <<>> ELSE lines[1] \o <<NL>> \o EachLine(Tail(lines))

IsFirstParent(c) == c.first_parent

RECURSIVE Subjects(_)
Subjects(cs) ==
    IF cs = <<>> THEN <<>> ELSE <<cs[1].subject>> \o Subjects(Tail(cs))

\* %B of one commit: the subject, and the body after a blank line
Message(c) ==
    IF c.body = <<>> THEN c.subject \o <<NL>>
    ELSE c.subject \o <<NL, NL>> \o c.body \o <<NL>>

RECURSIVE Messages(_)
Messages(cs) ==
    IF cs = <<>> THEN <<>> ELSE <<Message(cs[1])>> \o Messages(Tail(cs))

\* git tag -l "v*" --sort=-creatordate
GitTagList(ts) == EachLine(ts)

\* git log <range> --first-parent --pretty=format:%s
GitLogSubjects(cs) == JoinWith(Subjects(SelectSeq(cs, IsFirstParent)), <<NL>>)

GitLogBodiesFirstParent(cs) ==
    JoinWith(Messages(SelectSeq(cs, IsFirstParent)), <<NL>>)

\* git log <range> --pretty=format:%B
GitLogBodies(cs) == JoinWith(Messages(cs), <<NL>>)

GitRun(kind, out) ==
    [kind |-> kind, stdout |-> IF kind = "ok" THEN out ELSE <<>>]

-----------------------------------------------------------------------------
(* run_git_command: [exc, val]; exc is TRUE when an exception other than    *)
(* CalledProcessError leaves the function.                                  *)

run_git_command(run, fail_on_error) ==
    IF run.kind = "oserror" THEN [exc |-> TRUE, val |-> None]
    ELSE IF run.kind = "nonzero" /\ fail_on_error THEN [exc |-> FALSE, val |-> None]
    ELSE [exc |-> FALSE, val |-> Strip(run.stdout)]

-----------------------------------------------------------------------------
(* find_baseline_tag, given what run_git_command returned *)

\* the oldest tag of the listing is taken instead of the most recent
find_baseline_tag_oldest(tags_output) ==
    IF Falsy(tags_output)
    THEN [tag |-> None, from_stable |-> TRUE, msg |-> "INFO: No tags found"]
    ELSE LET t == Split(tags_output)[Len(Split(tags_output))]
         IN  IF Contains(t, RC_MARKER)
             THEN [tag |-> t, from_stable |-> FALSE, msg |-> "INFO: Baseline found (RC)"]
             ELSE [tag |-> t, from_stable |-> TRUE, msg |-> "INFO: Baseline found (Stable)"]

find_baseline_tag(tags_output) ==
    IF Falsy(tags_output)
    THEN [tag |-> None, from_stable |-> TRUE, msg |-> "INFO: No tags found"]
    ELSE LET t == Split(tags_output)[1]
         IN  IF Contains(t, RC_MARKER)
             THEN [tag |-> t, from_stable |-> FALSE, msg |-> "INFO: Baseline found (RC)"]
             ELSE [tag |-> t, from_stable |-> TRUE, msg |-> "INFO: Baseline found (Stable)"]

-----------------------------------------------------------------------------
(* get_commit_depth, given what run_git_command returned *)

\* f"{baseline_tag}..HEAD" if baseline_tag else "HEAD"
rev_range(baseline_tag) ==
    IF Falsy(baseline_tag) THEN HEAD_REV ELSE baseline_tag \o <<".", ".">> \o HEAD_REV

\* release commits of the release tool are counted
IsRealCommitCountsReleases(s) ==
    ~(Contains(s, BOT_FOOTER_TAG) \/ Contains(s, BOT_COMMIT_MSG))

IsRealCommit(s) ==
    /\ ~(Contains(s, BOT_FOOTER_TAG) \/ Contains(s, BOT_COMMIT_MSG))
    /\ ~re_match(release_regex, s)

get_commit_depth(subjects_out) ==
    IF Falsy(subjects_out) THEN 0
    ELSE Len(SelectSeq(Split(subjects_out), IsRealCommit))

-----------------------------------------------------------------------------
(* analyze_impact, given what run_git_command returned *)

analyze_impact(log_out) ==
    IF Falsy(log_out) THEN <<FALSE, FALSE>>
    ELSE <<re_search_multiline(breaking_regex, log_out)
               \/ Contains(log_out, BREAKING_MARKER),
           re_search_multiline(feat_regex, log_out)>>

-----------------------------------------------------------------------------
(* main, stable promotion *)

\* re.sub(r'-rc.*', '', s): each "-rc" and the rest of its line are removed
RECURSIVE ReSubRc(_)
ReSubRc(s) ==
    IF ~Contains(s, RC_MARKER) THEN s
    ELSE LET i == CHOOSE j \in 1..Len(s) :
                     /\ j + 2 <= Len(s) /\ SubSeq(s, j, j + 2) = RC_MARKER
                     /\ \A k \in 1..(j - 1) :
                            ~(k + 2 <= Len(s) /\ SubSeq(s, k, k + 2) = RC_MARKER)
             e == IF \E k \in i..Len(s) : s[k] = NL
                  THEN CHOOSE k \in i..Len(s) :
                           s[k] = NL /\ \A l \in i..(k - 1) : s[l] # NL
                  ELSE Len(s) + 1
         IN  SubSeq(s, 1, i - 1) \o ReSubRc(SubSeq(s, e, Len(s)))

\* the release-candidate suffix is kept
stable_version_keeps_rc(t) ==
    IF Falsy(t) THEN INITIAL_STABLE ELSE LStripV(t)

stable_version(t) ==
    IF Falsy(t) THEN INITIAL_STABLE ELSE LStripV(ReSubRc(t))

-----------------------------------------------------------------------------
(* The environment a run of main() can meet *)

SeqsUpTo(S, n) == UNION {[1..k -> S] : k \in 0..n}

NoBranch == "<unset>"
Branches == {"main", "master", "next", NoBranch}
StableBranches == {"main", "master"}

TagPool ==
    { <<"v","1",".","2",".","3">>,
      <<"v","1",".","2",".","0","-","r","c",".","2">>,
      <<"v","2",".","0",".","1","0","-","r","c",".","1","2">>,
      <<"v","1",".","0">>,
      <<"v","v","1",".","0",".","0">> }

Commit(subject, body, first_parent) ==
    [subject |-> subject, body |-> body, first_parent |-> first_parent]

CommitPool ==
    { Commit(<<"f","e","a","t",":"," ","a">>, <<>>, TRUE),
      Commit(<<"f","i","x",":"," ","b">>, <<>>, TRUE),
      Commit(<<"c","h","o","r","e",":"," ","r","e","l","e","a","s","e"," ","1">>, <<>>, TRUE),
      Commit(<<"f","e","a","t","!",":"," ","c">>, <<>>, FALSE),
      Commit(<<"c","h","o","r","e","(","m","a","i","n",")",":"," ","r","e","l","e","a","s","e"," ","2">>,
             <<"f","e","a","t",":"," ","d">>, TRUE) }

GitKinds == {"ok", "nonzero", "oserror"}

\* tags created before the most recent one
OlderTagPool ==
    { <<"v","1",".","2",".","3">>,
      <<"v","1",".","2",".","0","-","r","c",".","2">> }

TagLists ==
    {<<>>} \cup {<<t>> \o older : t \in TagPool,
                                 older \in SeqsUpTo(OlderTagPool, MaxTags - 1)}

TagQueries ==
    {[kind |-> "ok", tags |-> ts] : ts \in TagLists}
        \cup {[kind |-> k, tags |-> <<>>] : k \in GitKinds \ {"ok"}}

LogQueries ==
    {[kind |-> "ok", commits |-> cs] : cs \in SeqsUpTo(CommitPool, MaxCommits)}
        \cup {[kind |-> k, commits |-> <<>>] : k \in GitKinds \ {"ok"}}

PriorSink == << <<"k","=","1">> >>

TagArgs(kind) ==
    [cmd |-> "tag", rev_range |-> <<>>, format |-> "", first_parent |-> FALSE,
     kind |-> kind]

LogArgs(range, format, first_parent, kind) ==
    [cmd |-> "log", rev_range |-> range, format |-> format,
     first_parent |-> first_parent, kind |-> kind]

-----------------------------------------------------------------------------
(* main *)

Locals == <<tag, from_stable, depth, major, minor, patch, rc, is_breaking,
            is_feat, raw_subjects, logs, next_ver>>

Env == <<branch, github_output, sink0>>

Init ==
    /\ pc = "start"
    /\ branch \in Branches
    /\ github_output \in {"ok", "unset", "unwritable"}
    /\ sink0 = PriorSink
    /\ sink = sink0
    /\ tags = <<>>
    /\ commits = <<>>
    /\ printed = <<>>
    /\ calls = <<>>
    /\ exit_status = <<>>
    /\ raised = "none"
    /\ tag = None
    /\ from_stable = TRUE
    /\ depth = 0
    /\ major = 0 /\ minor = 0 /\ patch = 0 /\ rc = 0
    /\ is_breaking = FALSE /\ is_feat = FALSE
    /\ raw_subjects = None /\ logs = None
    /\ next_ver = None

\* a handler that reports the failure to the pipeline: sys.exit(1)
ExceptExitsNonZero(msg, e) ==
    /\ printed' = Append(printed, msg)
    /\ raised' = e
    /\ exit_status' = <<1>>
    /\ pc' = "done"

\* except Exception as e: print(f"CRITICAL ERROR...: {e}"); sys.exit(0)
Except(msg, e) ==
    /\ printed' = Append(printed, msg)
    /\ raised' = e
    /\ exit_status' = <<0>>
    /\ pc' = "done"

\* the file opened with "w" instead of "a": earlier content is lost
WriteOutputTruncating(v, msg) ==
    IF github_output = "unset"
    THEN Except(msg, "KeyError") /\ UNCHANGED sink
    ELSE IF github_output = "unwritable"
    THEN Except(msg, "OSError") /\ UNCHANGED sink
    ELSE /\ sink' = <<OUTPUT_KEY \o v>>
         /\ exit_status' = <<0>>
         /\ pc' = "done"
         /\ UNCHANGED <<printed, raised>>

\* with open(os.environ["GITHUB_OUTPUT"], "a") as f: f.write(f"next_version={v}\n")
WriteOutput(v, msg) ==
    IF github_output = "unset"
    THEN Except(msg, "KeyError") /\ UNCHANGED sink
    ELSE IF github_output = "unwritable"
    THEN Except(msg, "OSError") /\ UNCHANGED sink
    ELSE /\ sink' = Append(sink, OUTPUT_KEY \o v)
         /\ exit_status' = <<0>>
         /\ pc' = "done"
         /\ UNCHANGED <<printed, raised>>

StableBaseline ==
    /\ pc = "start"
    /\ branch \in StableBranches
    /\ \E q \in TagQueries :
         LET r == run_git_command(GitRun(q.kind, GitTagList(q.tags)), FALSE)
             b == find_baseline_tag(r.val)
         IN  /\ tags' = q.tags
             /\ calls' = Append(calls, TagArgs(q.kind))
             /\ IF r.exc
                THEN /\ Except("CRITICAL ERROR (stable)", "OSError")
                     /\ UNCHANGED <<tag, next_ver>>
                ELSE /\ tag' = b.tag
                     /\ next_ver' = stable_version(b.tag)
                     /\ printed' = printed \o <<b.msg, "INFO: Detected tag">>
                     /\ pc' = "stable_write"
                     /\ UNCHANGED <<raised, exit_status>>
    /\ UNCHANGED <<Env, commits, sink, from_stable, depth, major, minor, patch,
                   rc, is_breaking, is_feat, raw_subjects, logs>>

StableWrite ==
    /\ pc = "stable_write"
    /\ WriteOutput(next_ver, "CRITICAL ERROR (stable)")
    /\ UNCHANGED <<Env, tags, commits, calls, Locals>>

RcBaseline ==
    /\ pc = "start"
    /\ branch \notin StableBranches
    /\ \E q \in TagQueries :
         LET r == run_git_command(GitRun(q.kind, GitTagList(q.tags)), FALSE)
             b == find_baseline_tag(r.val)
         IN  /\ tags' = q.tags
             /\ calls' = Append(calls, TagArgs(q.kind))
             /\ IF r.exc
                THEN /\ Except("CRITICAL ERROR", "OSError")
                     /\ UNCHANGED <<tag, from_stable>>
                ELSE /\ tag' = b.tag
                     /\ from_stable' = b.from_stable
                     /\ printed' = Append(printed, b.msg)
                     /\ pc' = "rc_depth"
                     /\ UNCHANGED <<raised, exit_status>>
    /\ UNCHANGED <<Env, commits, sink, depth, major, minor, patch, rc,
                   is_breaking, is_feat, raw_subjects, logs, next_ver>>

\* the depth == 0 return is missing: the run goes on to the body query
RcDepthNoEarlyReturn ==
    /\ pc = "rc_depth"
    /\ \E q \in LogQueries :
         LET r == run_git_command(GitRun(q.kind, GitLogSubjects(q.commits)), FALSE)
             d == get_commit_depth(r.val)
         IN  /\ commits' = q.commits
             /\ calls' = Append(calls, LogArgs(rev_range(tag), "%s", TRUE, q.kind))
             /\ IF r.exc
                THEN /\ Except("CRITICAL ERROR", "OSError")
                     /\ UNCHANGED <<depth, raw_subjects>>
                ELSE /\ raw_subjects' = r.val
                     /\ depth' = d
                     /\ pc' = "rc_analyze"
                     /\ UNCHANGED <<printed, exit_status, raised>>
    /\ UNCHANGED <<Env, tags, sink, tag, from_stable, major, minor, patch, rc,
                   is_breaking, is_feat, logs, next_ver>>

RcDepth ==
    /\ pc = "rc_depth"
    /\ \E q \in LogQueries :
         LET r == run_git_command(GitRun(q.kind, GitLogSubjects(q.commits)), FALSE)
             d == get_commit_depth(r.val)
         IN  /\ commits' = q.commits
             /\ calls' = Append(calls, LogArgs(rev_range(tag), "%s", TRUE, q.kind))
             /\ IF r.exc
                THEN /\ Except("CRITICAL ERROR", "OSError")
                     /\ UNCHANGED <<depth, raw_subjects>>
                ELSE /\ raw_subjects' = r.val
                     /\ depth' = d
                     /\ IF d = 0
                        THEN /\ printed' = Append(printed, "INFO: No user commits found")
                             /\ exit_status' = <<0>>
                             /\ pc' = "done"
                        ELSE /\ pc' = "rc_analyze"
                             /\ UNCHANGED <<printed, exit_status>>
                     /\ UNCHANGED raised
    /\ UNCHANGED <<Env, tags, sink, tag, from_stable, major, minor, patch, rc,
                   is_breaking, is_feat, logs, next_ver>>

RcAnalyze ==
    /\ pc = "rc_analyze"
    /\ \E kind \in GitKinds :
         LET v == parse_semver(tag)
             r == run_git_command(GitRun(kind, GitLogBodies(commits)), FALSE)
             impact == analyze_impact(r.val)
         IN  /\ major' = v[1] /\ minor' = v[2] /\ patch' = v[3] /\ rc' = v[4]
             /\ calls' = Append(calls, LogArgs(rev_range(tag), "%B", FALSE, kind))
             /\ IF r.exc
                THEN /\ Except("CRITICAL ERROR", "OSError")
                     /\ UNCHANGED <<is_breaking, is_feat, logs, next_ver>>
                ELSE /\ logs' = r.val
                     /\ is_breaking' = impact[1]
                     /\ is_feat' = impact[2]
                     /\ next_ver' = calculate_next_version(v[1], v[2], v[3], v[4],
                                        depth, impact[1], impact[2], from_stable)
                     /\ pc' = "rc_write"
                     /\ UNCHANGED <<printed, raised, exit_status>>
    /\ UNCHANGED <<Env, tags, commits, sink, tag, from_stable, depth, raw_subjects>>

RcWrite ==
    /\ pc = "rc_write"
    /\ WriteOutput(next_ver, "CRITICAL ERROR")
    /\ UNCHANGED <<Env, tags, commits, calls, Locals>>

Next ==
    \/ StableBaseline
    \/ StableWrite
    \/ RcBaseline
    \/ RcDepth
    \/ RcAnalyze
    \/ RcWrite

Spec == Init /\ [][Next]_vars

-----------------------------------------------------------------------------
(* Properties of main *)

Terminated == pc = "done"

QueryThrew == \E i \in 1..Len(calls) : calls[i].kind = "oserror"

\* the run got as far as opening the output file
WriteReached == Terminated /\ next_ver # None

CriticalPrinted ==
    \E i \in 1..Len(printed) :
        printed[i] \in {"CRITICAL ERROR", "CRITICAL ERROR (stable)"}

FailOpenOutcome == sink = sink0 /\ CriticalPrinted /\ exit_status = <<0>>

\* C1 as stated: a run that meets a throwing query, a missing branch name, a
\* missing output path or an unwritable sink appends nothing, prints a
\* diagnostic and exits 0, and no run exits with a non-zero status.
C1_FailOpenAsClaimed ==
    /\ exit_status \in {<<>>, <<0>>}
    /\ Terminated => exit_status = <<0>>
    /\ (Terminated /\ (QueryThrew \/ branch = NoBranch
                          \/ (WriteReached /\ github_output # "ok")))
           => (sink = sink0 /\ printed # <<>> /\ exit_status = <<0>>)

\* C1 amended: a run in which a query throws, or which reaches its write and
\* finds the output path missing or the sink unwritable, appends nothing,
\* prints CRITICAL ERROR and exits 0; a missing branch name is no failure;
\* no run exits with a non-zero status.
C1_FailOpen ==
    /\ exit_status \in {<<>>, <<0>>}
    /\ Terminated => exit_status = <<0>>
    /\ (Terminated /\ (QueryThrew \/ (WriteReached /\ github_output # "ok")))
           => FailOpenOutcome
    /\ (Terminated /\ ~QueryThrew /\ ~(WriteReached /\ github_output # "ok"))
           => ~CriticalPrinted

C1_Witness ==
    /\ Terminated /\ branch = "next" /\ depth > 0
    /\ github_output = "unset" /\ raised = "KeyError"
    /\ FailOpenOutcome

\* C2: the sink only grows, by at most one line per run; a run that completes
\* without failure appends exactly one line next_version=<value>, except that
\* a release-candidate run of depth 0 appends nothing.
C2_OutputLineCount ==
    /\ Len(sink) <= Len(sink0) + 1
    /\ Len(sink) >= Len(sink0)
    /\ SubSeq(sink, 1, Len(sink0)) = sink0
    /\ ~Terminated => sink = sink0
    /\ (Terminated /\ raised = "none") =>
          IF branch \notin StableBranches /\ depth = 0
          THEN sink = sink0
          ELSE /\ Len(sink) = Len(sink0) + 1
               /\ Len(sink[Len(sink)]) > Len(OUTPUT_KEY)
               /\ SubSeq(sink[Len(sink)], 1, Len(OUTPUT_KEY)) = OUTPUT_KEY

C2_Witness ==
    /\ Terminated /\ raised = "none" /\ branch = "next"
    /\ tag # None /\ commits # <<>> /\ depth = 0
    /\ sink = sink0

\* the text before the first "-rc", or the whole text when there is none
UpToRcMarker(t) ==
    IF \E i \in 1..(Len(t) - 2) : t[i] = "-" /\ t[i + 1] = "r" /\ t[i + 2] = "c"
    THEN SubSeq(t, 1,
            (CHOOSE i \in 1..(Len(t) - 2) :
                /\ t[i] = "-" /\ t[i + 1] = "r" /\ t[i + 2] = "c"
                /\ \A k \in 1..(i - 1) :
                       ~(t[k] = "-" /\ t[k + 1] = "r" /\ t[k + 2] = "c")) - 1)
    ELSE t

\* the text after its leading run of "v"
AfterLeadingVs(t) ==
    LET n == CHOOSE k \in 0..Len(t) :
                 /\ \A j \in 1..k : t[j] = "v"
                 /\ k = Len(t) \/ t[k + 1] # "v"
    IN  SubSeq(t, n + 1, Len(t))

OnlyTagQueryIssued == Len(calls) = 1 /\ calls[1].cmd = "tag"

StablePromoted == Terminated /\ branch \in StableBranches /\ raised = "none"

\* C3 as stated: on main or master the value is "0.1.0" without a tag, else
\* the most recent tag cut at "-rc" and without its first character "v";
\* no commit query is issued.
C3_StablePromotionAsClaimed ==
    StablePromoted =>
        /\ OnlyTagQueryIssued
        /\ sink = Append(sink0, OUTPUT_KEY \o
                     (IF tags = <<>> THEN <<"0", ".", "1", ".", "0">>
                      ELSE Tail(UpToRcMarker(tags[1]))))

\* C3 amended: as stated, but every leading "v" of the tag is dropped.
C3_StablePromotion ==
    StablePromoted =>
        /\ OnlyTagQueryIssued
        /\ sink = Append(sink0, OUTPUT_KEY \o
                     (IF tags = <<>> THEN <<"0", ".", "1", ".", "0">>
                      ELSE AfterLeadingVs(UpToRcMarker(tags[1]))))

C3_Witness ==
    /\ StablePromoted /\ branch = "master"
    /\ Len(tags) = 2
    /\ tags[1] = <<"v","2",".","0",".","1","0","-","r","c",".","1","2">>
    /\ sink = Append(sink0, OUTPUT_KEY \o <<"2",".","0",".","1","0">>)

HasRcMarker(t) ==
    \E i \in 1..(Len(t) - 2) : t[i] = "-" /\ t[i + 1] = "r" /\ t[i + 2] = "c"

BaselineResolved ==
    pc # "start" /\ branch \notin StableBranches /\ calls[1].kind # "oserror"

IsNumber(s) == s # <<>> /\ \A k \in 1..Len(s) : IsDigit(s[k])

IsTriple(s) ==
    \E i, j \in 1..Len(s) :
        /\ i < j /\ s[i] = "." /\ s[j] = "."
        /\ IsNumber(SubSeq(s, 1, i - 1))
        /\ IsNumber(SubSeq(s, i + 1, j - 1))
        /\ IsNumber(SubSeq(s, j + 1, Len(s)))

IsRcVersion(s) ==
    \E k \in 1..(Len(s) - 3) :
        /\ SubSeq(s, k, k + 3) = <<"-", "r", "c", ".">>
        /\ IsTriple(SubSeq(s, 1, k - 1))
        /\ IsNumber(SubSeq(s, k + 4, Len(s)))

\* C10: whatever the tag query lists, the value written after next_version=
\* is major.minor.patch or major.minor.patch-rc.N.
C10_OutputShape ==
    sink # sink0 =>
        LET v == SubSeq(sink[Len(sink)], Len(OUTPUT_KEY) + 1, Len(sink[Len(sink)]))
        IN  IsTriple(v) \/ IsRcVersion(v)

-----------------------------------------------------------------------------
(* The functions called on their own, as the unit tests call them.  The     *)
(* variables of main that a call does not use keep their initial values.    *)

IdleMain ==
    /\ branch = NoBranch
    /\ github_output = "ok"
    /\ sink0 = PriorSink
    /\ sink = sink0
    /\ tags = <<>>
    /\ printed = <<>>
    /\ calls = <<>>
    /\ exit_status = <<>>
    /\ raised = "none"

NumPool == (0..MaxNum) \cup {BigNum - 1}

(* calculate_next_version *)

InitCalc ==
    /\ pc = "call_calculate_next_version"
    /\ IdleMain
    /\ commits = <<>>
    /\ tag = None
    /\ major \in NumPool /\ minor \in NumPool /\ patch \in NumPool /\ rc \in NumPool
    /\ depth \in 1..MaxDepth
    /\ is_breaking \in BOOLEAN /\ is_feat \in BOOLEAN /\ from_stable \in BOOLEAN
    /\ raw_subjects = None /\ logs = None
    /\ next_ver = None

CallCalculateNextVersion ==
    /\ pc = "call_calculate_next_version"
    /\ next_ver' = calculate_next_version(major, minor, patch, rc, depth,
                                          is_breaking, is_feat, from_stable)
    /\ pc' = "returned"
    /\ UNCHANGED <<Env, tags, commits, sink, printed, calls, exit_status, raised,
                   tag, from_stable, depth, major, minor, patch, rc,
                   is_breaking, is_feat, raw_subjects, logs>>

SpecCalc == InitCalc /\ [][CallCalculateNextVersion]_vars

\* the decimal numeral of n < 100
Numeral(n) ==
    IF n < 10 THEN <<DigitChars[n + 1]>>
    ELSE <<DigitChars[(n \div 10) + 1], DigitChars[(n % 10) + 1]>>

VersionText(ma, mi, pa, n) ==
    Numeral(ma) \o <<".">> \o Numeral(mi) \o <<".">> \o Numeral(pa)
        \o <<"-", "r", "c", ".">> \o Numeral(n)

\* C4: with is_breaking the result is (major+1).0.0-rc.<depth>, whatever
\* is_feat, from_stable, minor, patch and rc are.
C4_BreakingPrecedence ==
    (pc = "returned" /\ is_breaking) =>
        next_ver = VersionText(major + 1, 0, 0, depth)

C4_Witness ==
    /\ pc = "returned" /\ is_breaking /\ is_feat /\ ~from_stable
    /\ rc > 0 /\ patch > 0 /\ minor > 0 /\ depth > 1
    /\ next_ver = VersionText(major + 1, 0, 0, depth)

\* C5: without is_breaking the result is major.(minor+1).0-rc.<depth> for a
\* feature from a stable baseline or with patch > 0, major.minor.(patch+1)-rc.<depth>
\* for a non-feature from a stable baseline, and major.minor.patch-rc.<rc+depth>
\* in every other case.
C5_DecisionTable ==
    (pc = "returned" /\ ~is_breaking) =>
        next_ver =
            IF is_feat /\ (from_stable \/ patch > 0)
            THEN VersionText(major, minor + 1, 0, depth)
            ELSE IF ~is_feat /\ from_stable
            THEN VersionText(major, minor, patch + 1, depth)
            ELSE VersionText(major, minor, patch, rc + depth)

C5_Witness ==
    /\ pc = "returned" /\ ~is_breaking /\ is_feat /\ ~from_stable
    /\ patch = 0 /\ rc > 0 /\ minor > 0
    /\ next_ver = VersionText(major, minor, 0, rc + depth)

(* parse_semver *)

StableTag(ma, mi, pa) ==
    <<"v">> \o Numeral(ma) \o <<".">> \o Numeral(mi) \o <<".">> \o Numeral(pa)

RcTag(ma, mi, pa, n) == StableTag(ma, mi, pa) \o <<"-", "r", "c", ".">> \o Numeral(n)

MalformedTags ==
    { <<"i","n","v","a","l","i","d">>,
      <<"v","1",".","2">>,
      <<"1",".","2",".","3">>,
      <<"x","v","1",".","2",".","3">>,
      <<"v","1",".","2",".","3","x">>,
      <<"v","1",".","2",".","3","-","r","c">>,
      <<"v","1",".","2",".","3","-","r","c",".">>,
      <<"v","1",".","2",".","3","-","r","c","4">>,
      <<"v","1",".","2",".","3","-","r","c",".","4","-","r","c",".","5">>,
      <<"v","1",".",".","3">>,
      <<"v","1",".","2",".","3"," ">>,
      <<"v","1",".","2",".","3",NL>>,
      <<"v","1",".","2",".","3","-","r","c",".","4",NL>>,
      <<"v","1",".","2",".","3",NL,NL>> }

ParseInputs ==
    {None, <<>>}
        \cup {StableTag(a, b, c) : a, b, c \in NumPool}
        \cup {RcTag(a, b, c, d) : a, b, c, d \in NumPool}
        \cup MalformedTags

InitParse ==
    /\ pc = "call_parse_semver"
    /\ IdleMain
    /\ commits = <<>>
    /\ tag \in ParseInputs
    /\ from_stable = TRUE
    /\ depth = 0
    /\ major = 0 /\ minor = 0 /\ patch = 0 /\ rc = 0
    /\ is_breaking = FALSE /\ is_feat = FALSE
    /\ raw_subjects = None /\ logs = None
    /\ next_ver = None

CallParseSemver ==
    /\ pc = "call_parse_semver"
    /\ LET v == parse_semver(tag)
       IN  major' = v[1] /\ minor' = v[2] /\ patch' = v[3] /\ rc' = v[4]
    /\ pc' = "returned"
    /\ UNCHANGED <<Env, tags, commits, sink, printed, calls, exit_status, raised,
                   tag, from_stable, depth, is_breaking, is_feat, raw_subjects,
                   logs, next_ver>>

SpecParse == InitParse /\ [][CallParseSemver]_vars

\* t is "v" digits "." digits "." digits
HasStableShape(t) ==
    /\ t # None /\ t # <<>> /\ Head(t) = "v"
    /\ IsTriple(Tail(t))

\* t is "v" digits "." digits "." digits "-rc." digits
HasRcShape(t) ==
    /\ t # None /\ t # <<>> /\ Head(t) = "v"
    /\ IsRcVersion(Tail(t))

\* C9: parse_semver gives (M, N, P, R) for vM.N.P-rc.R, (M, N, P, 0) for
\* vM.N.P and (0, 0, 0, 0) for every other input.
C9_ParseSemver ==
    pc = "returned" =>
        IF HasRcShape(tag)
        THEN \E a, b, c, d \in 0..(BigNum + MaxNum) :
                 tag = RcTag(a, b, c, d) /\ <<major, minor, patch, rc>> = <<a, b, c, d>>
        ELSE IF HasStableShape(tag)
        THEN \E a, b, c \in 0..(BigNum + MaxNum) :
                 tag = StableTag(a, b, c) /\ <<major, minor, patch, rc>> = <<a, b, c, 0>>
        ELSE <<major, minor, patch, rc>> = <<0, 0, 0, 0>>

(* get_commit_depth *)

SubjectPool ==
    { <<"f","e","a","t",":"," ","a">>,
      <<"d","o","c","s",":"," ","b">>,
      <<"c","h","o","r","e",":"," ","b","u","m","p"," ","R","e","l","e","a","s","e","-","A","s",":"," ","1">>,
      BOT_COMMIT_MSG,
      <<"c","h","o","r","e",":"," ","r","e","l","e","a","s","e"," ","1">>,
      <<"c","h","o","r","e","(","n","e","x","t",")",":"," ","r","e","l","e","a","s","e"," ","1">>,
      <<"c","h","o","r","e","(","n","e","x","t",")",":"," ","u","p","d","a","t","e">> }

\* what the patched run_git_command hands to the function under test
MockKinds == {"ok", "nonzero", "none"}

MockedOutput(kind, out) ==
    IF kind = "none" THEN None ELSE run_git_command(GitRun(kind, out), FALSE).val

InitDepth ==
    /\ pc = "call_get_commit_depth"
    /\ IdleMain
    /\ commits \in SeqsUpTo({Commit(s, <<>>, TRUE) : s \in SubjectPool}, MaxSubjects)
    /\ tag \in {None, <<"v","1",".","2",".","3">>}
    /\ from_stable = TRUE
    /\ depth = 0
    /\ major = 0 /\ minor = 0 /\ patch = 0 /\ rc = 0
    /\ is_breaking = FALSE /\ is_feat = FALSE
    /\ raw_subjects = None /\ logs = None
    /\ next_ver = None

CallGetCommitDepth ==
    /\ pc = "call_get_commit_depth"
    /\ \E kind \in MockKinds :
         LET out == MockedOutput(kind, GitLogSubjects(commits))
         IN  /\ calls' = Append(calls, LogArgs(rev_range(tag), "%s", TRUE, kind))
             /\ raw_subjects' = out
             /\ depth' = get_commit_depth(out)
    /\ pc' = "returned"
    /\ UNCHANGED <<Env, tags, commits, sink, printed, exit_status, raised, tag,
                   from_stable, major, minor, patch, rc, is_breaking, is_feat,
                   logs, next_ver>>

SpecDepth == InitDepth /\ [][CallGetCommitDepth]_vars

HasText(s, sub) ==
    \E i \in 1..(Len(s) - Len(sub) + 1) :
        \A k \in 1..Len(sub) : s[i + k - 1] = sub[k]

StartsWith(s, sub) ==
    Len(s) >= Len(sub) /\ \A k \in 1..Len(sub) : s[k] = sub[k]

\* s starts with one of the words, an optional "(...)" and then sep
HasHeader(s, words, sep) ==
    \E w \in words :
        /\ StartsWith(s, w)
        /\ \/ StartsWith(SubSeq(s, Len(w) + 1, Len(s)), sep)
           \/ /\ Len(s) > Len(w) /\ s[Len(w) + 1] = "("
              /\ \E j \in (Len(w) + 2)..Len(s) :
                     s[j] = ")" /\ StartsWith(SubSeq(s, j + 1, Len(s)), sep)

IsAutomationSubject(s) ==
    \/ HasText(s, <<"R","e","l","e","a","s","e","-","A","s",":">>)
    \/ HasText(s, <<"c","h","o","r","e",":"," ","e","n","f","o","r","c","e"," ","c","o","r","r","e","c","t"," ","r","c"," ","v","e","r","s","i","o","n">>)
    \/ HasHeader(s, {<<"c","h","o","r","e">>}, <<":"," ","r","e","l","e","a","s","e">>)

\* C7: the depth is the number of subjects of the batch that are not
\* automation subjects, wherever they stand in the batch; an empty or absent
\* query result gives 0.
C7_DepthCounting ==
    pc = "returned" =>
        IF calls[1].kind = "ok"
        THEN depth = Cardinality({i \in 1..Len(commits) :
                                      ~IsAutomationSubject(commits[i].subject)})
        ELSE depth = 0

C7_Witness ==
    /\ pc = "returned" /\ calls[1].kind = "ok"
    /\ Len(commits) = 3 /\ depth = 1
    /\ IsAutomationSubject(commits[1].subject)
    /\ ~IsAutomationSubject(commits[2].subject)
    /\ HasHeader(commits[3].subject, {<<"c","h","o","r","e">>},
                 <<":"," ","r","e","l","e","a","s","e">>)

(* analyze_impact *)

MessagePool ==
    { Commit(<<"f","e","a","t",":"," ","a">>, <<>>, TRUE),
      Commit(<<"f","e","a","t","!",":"," ","a">>, <<>>, TRUE),
      Commit(<<"f","i","x","!",":"," ","a">>, <<>>, TRUE),
      Commit(<<"f","i","x",":"," ","a">>, <<>>, TRUE),
      Commit(<<"f","e","a","t","(","x",")",":"," ","a">>, <<>>, TRUE),
      Commit(<<"r","e","f","a","c","t","o","r","(","x",")","!",":"," ","a">>, <<>>, TRUE),
      Commit(<<"d","o","c","s",":"," ","a">>,
             <<"B","R","E","A","K","I","N","G"," ","C","H","A","N","G","E",":"," ","b">>, TRUE),
      Commit(<<"d","o","c","s",":"," ","s","e","e"," ","f","e","a","t",":"," ","a">>, <<>>, TRUE),
      Commit(<<"c","h","o","r","e",":"," ","a">>, <<"f","e","a","t",":"," ","b">>, FALSE) }

InitImpact ==
    /\ pc = "call_analyze_impact"
    /\ IdleMain
    /\ commits \in SeqsUpTo(MessagePool, MaxMessages)
    /\ tag \in {None, <<"v","1",".","2",".","3">>}
    /\ from_stable = TRUE
    /\ depth = 0
    /\ major = 0 /\ minor = 0 /\ patch = 0 /\ rc = 0
    /\ is_breaking = FALSE /\ is_feat = FALSE
    /\ raw_subjects = None /\ logs = None
    /\ next_ver = None

CallAnalyzeImpact ==
    /\ pc = "call_analyze_impact"
    /\ \E kind \in MockKinds :
         LET out == MockedOutput(kind, GitLogBodies(commits))
             impact == analyze_impact(out)
         IN  /\ calls' = Append(calls, LogArgs(rev_range(tag), "%B", FALSE, kind))
             /\ logs' = out
             /\ is_breaking' = impact[1]
             /\ is_feat' = impact[2]
    /\ pc' = "returned"
    /\ UNCHANGED <<Env, tags, commits, sink, printed, exit_status, raised, tag,
                   from_stable, depth, major, minor, patch, rc, raw_subjects,
                   next_ver>>

SpecImpact == InitImpact /\ [][CallAnalyzeImpact]_vars

\* the lines of the corpus: each commit's subject and body
CorpusLines == {commits[i].subject : i \in 1..Len(commits)}
                   \cup {commits[i].body : i \in 1..Len(commits)}

BreakingWords == {<<"f","e","a","t">>, <<"f","i","x">>, <<"r","e","f","a","c","t","o","r">>}

FeatBang == Commit(<<"f","e","a","t","!",":"," ","a">>, <<>>, TRUE)
FixBang == Commit(<<"f","i","x","!",":"," ","a">>, <<>>, TRUE)

\* C8: is_breaking holds exactly when a line starts with feat, fix or
\* refactor, an optional scope and "!:", or the corpus contains BREAKING
\* CHANGE; is_feat holds exactly when a line starts with feat, an optional
\* scope and ":"; so "feat!:" alone and "fix!:" alone give (true, false) and
\* an empty or absent corpus gives (false, false).
C8_ImpactClassification ==
    pc = "returned" =>
        IF calls[1].kind = "ok"
        THEN /\ is_breaking <=>
                   \E l \in CorpusLines :
                       \/ HasHeader(l, BreakingWords, <<"!", ":">>)
                       \/ HasText(l, <<"B","R","E","A","K","I","N","G"," ","C","H","A","N","G","E">>)
             /\ is_feat <=>
                   \E l \in CorpusLines : HasHeader(l, {<<"f","e","a","t">>}, <<":">>)
             /\ commits \in {<<FeatBang>>, <<FixBang>>} => (is_breaking /\ ~is_feat)
             /\ commits = <<>> => (~is_breaking /\ ~is_feat)
        ELSE ~is_breaking /\ ~is_feat

C8_Witness ==
    /\ pc = "returned" /\ calls[1].kind = "ok"
    /\ commits = <<FeatBang>>
    /\ is_breaking /\ ~is_feat

-----------------------------------------------------------------------------
(* Properties of the release-candidate path of main *)

RcRun == branch \notin StableBranches

IsTagQuery(c) == c.cmd = "tag"

IsSubjectQuery(c) == c.cmd = "log" /\ c.format = "%s" /\ c.first_parent

IsBodyQuery(c) == c.cmd = "log" /\ c.format = "%B" /\ ~c.first_parent

\* the revision range that starts at the tag the tag query listed first
RangeOfListedTag ==
    IF tags = <<>> THEN <<"H","E","A","D">>
    ELSE tags[1] \o <<".", ".", "H","E","A","D">>

\* C11: on a branch other than main/master the queries are the tag query,
\* then the first-parent subject query, then the body query, each at most
\* once; the body query and the write happen only with depth >= 1, the write
\* only after the three queries and only once; the body query names the
\* baseline the tag query returned.
C11_RcPathOrdering ==
    RcRun =>
        /\ Len(calls) <= 3
        /\ Len(calls) >= 1 => IsTagQuery(calls[1])
        /\ Len(calls) >= 2 => IsSubjectQuery(calls[2])
        /\ Len(calls) >= 3 =>
              /\ IsBodyQuery(calls[3])
              /\ depth >= 1
              /\ calls[1].kind # "oserror" /\ calls[2].kind = "ok"
              /\ calls[3].rev_range = RangeOfListedTag
              /\ calls[3].rev_range = calls[2].rev_range
        /\ pc = "rc_depth" <=> (Len(calls) = 1 /\ ~Terminated)
        /\ pc = "rc_analyze" <=> (Len(calls) = 2 /\ ~Terminated)
        /\ pc = "rc_write" <=> (Len(calls) = 3 /\ ~Terminated)
        /\ sink # sink0 =>
              /\ Terminated /\ Len(calls) = 3 /\ depth >= 1
              /\ Len(sink) = Len(sink0) + 1
        /\ (Terminated /\ Len(calls) = 2 /\ calls[2].kind # "oserror") =>
              (depth = 0 /\ sink = sink0)

C11_Witness ==
    /\ RcRun /\ Terminated /\ raised = "none"
    /\ Len(tags) = 2 /\ Len(commits) = 2 /\ depth = 1
    /\ Len(calls) = 3
    /\ calls[3].rev_range = tags[1] \o <<".", ".", "H","E","A","D">>
    /\ sink # sink0

\* a version as semantic versioning orders it: the triple, whether it is a
\* release candidate, and the candidate number
VersionOf(t) ==
    LET g == DigitRuns(t)
    IN  [triple |-> <<StrToInt(g[1]), StrToInt(g[2]), StrToInt(g[3])>>,
         is_rc |-> HasRcMarker(t),
         n |-> IF HasRcMarker(t) THEN StrToInt(g[4]) ELSE 0]

TripleLess(a, b) ==
    \/ a[1] < b[1]
    \/ a[1] = b[1] /\ a[2] < b[2]
    \/ a[1] = b[1] /\ a[2] = b[2] /\ a[3] < b[3]

\* a precedes b: a smaller triple, or the same triple and a candidate before
\* the release or before a candidate of a greater number
Precedes(a, b) ==
    \/ TripleLess(a.triple, b.triple)
    \/ /\ a.triple = b.triple
       /\ \/ a.is_rc /\ ~b.is_rc
          \/ a.is_rc /\ b.is_rc /\ a.n < b.n

WellFormedBaseline ==
    tags # <<>> /\ (HasStableShape(tags[1]) \/ HasRcShape(tags[1]))

RcEmitted == RcRun /\ Terminated /\ sink # sink0

EmittedValue ==
    SubSeq(sink[Len(sink)], Len(OUTPUT_KEY) + 1, Len(sink[Len(sink)]))

\* C12: on the release-candidate path, with a well-formed most recent tag
\* and depth >= 1, the emitted version is strictly greater than the version
\* of that tag, whatever is_breaking and is_feat are.
C12_Monotonicity ==
    (RcEmitted /\ WellFormedBaseline) =>
        /\ depth >= 1
        /\ IsRcVersion(EmittedValue)
        /\ Precedes(VersionOf(tags[1]), VersionOf(EmittedValue))

C12_Witness ==
    /\ RcEmitted /\ WellFormedBaseline
    /\ HasRcShape(tags[1])
    /\ ~is_breaking /\ is_feat /\ patch = 0
    /\ VersionOf(EmittedValue).triple = VersionOf(tags[1]).triple
    /\ VersionOf(EmittedValue).n = VersionOf(tags[1]).n + depth

\* Commit sets behind the depth and behind the impact flags

\* the i-th commit of the range is one that get_commit_depth counts
Counted(i) ==
    commits[i].first_parent /\ ~IsAutomationSubject(commits[i].subject)

\* subject and body of the commits of the pool are one line each
BreakingSignal(c) ==
    \/ HasHeader(c.subject, BreakingWords, <<"!", ":">>)
    \/ HasHeader(c.body, BreakingWords, <<"!", ":">>)
    \/ HasText(c.subject, <<"B","R","E","A","K","I","N","G"," ","C","H","A","N","G","E">>)
    \/ HasText(c.body, <<"B","R","E","A","K","I","N","G"," ","C","H","A","N","G","E">>)

FeatSignal(c) ==
    \/ HasHeader(c.subject, {<<"f","e","a","t">>}, <<":">>)
    \/ HasHeader(c.body, {<<"f","e","a","t">>}, <<":">>)

BreakingInCounted ==
    \E i \in 1..Len(commits) : Counted(i) /\ BreakingSignal(commits[i])

FeatInCounted ==
    \E i \in 1..Len(commits) : Counted(i) /\ FeatSignal(commits[i])

BreakingOnlyInExcluded ==
    /\ \E i \in 1..Len(commits) : ~Counted(i) /\ BreakingSignal(commits[i])
    /\ ~BreakingInCounted

FeatOnlyInExcluded ==
    /\ \E i \in 1..Len(commits) : ~Counted(i) /\ FeatSignal(commits[i])
    /\ ~FeatInCounted

\* the run classified the impact from a successful query
ImpactRun ==
    /\ RcRun /\ pc \in {"rc_write", "done"}
    /\ Len(calls) = 3 /\ calls[3].kind = "ok"

\* the version the counted commits alone would have given
VersionOfCountedOnly ==
    calculate_next_version(major, minor, patch, rc, depth,
                           BreakingInCounted, FeatInCounted, from_stable)

\* C13 as stated: on the release-candidate path, with depth >= 1, a breaking
\* or feature signal present only in a commit that get_commit_depth excludes
\* sets is_breaking / is_feat and changes the emitted version, while the
\* excluded commit adds nothing to the rc count.
C13_ExcludedSignalChangesVersion ==
    ImpactRun =>
        /\ depth = Cardinality({i \in 1..Len(commits) : Counted(i)})
        /\ BreakingOnlyInExcluded =>
               is_breaking /\ next_ver # VersionOfCountedOnly
        /\ (FeatOnlyInExcluded /\ ~is_breaking) =>
               is_feat /\ next_ver # VersionOfCountedOnly

\* C13: on the release-candidate path the depth counts the first-parent,
\* non-automation commits of the range while is_breaking and is_feat are
\* taken from the messages of all its commits.  With depth >= 1 a breaking
\* signal present only in excluded commits gives (major+1).0.0-rc.<depth>,
\* which the counted commits alone would not have given.  A feature signal
\* present only in excluded commits, without any breaking signal, gives
\* major.(minor+1).0-rc.<depth> when the baseline is stable or patch > 0;
\* from a release candidate with patch = 0 it sets is_feat and leaves the
\* version at major.minor.0-rc.<rc+depth>, the same as without it.
C13_ImpactOverAllCommits ==
    ImpactRun =>
        /\ depth >= 1
        /\ depth = Cardinality({i \in 1..Len(commits) : Counted(i)})
        /\ is_breaking <=> \E i \in 1..Len(commits) : BreakingSignal(commits[i])
        /\ is_feat <=> \E i \in 1..Len(commits) : FeatSignal(commits[i])
        /\ BreakingOnlyInExcluded =>
               /\ next_ver = VersionText(major + 1, 0, 0, depth)
               /\ next_ver # VersionOfCountedOnly
        /\ (FeatOnlyInExcluded /\ ~is_breaking) =>
               IF from_stable \/ patch > 0
               THEN /\ next_ver = VersionText(major, minor + 1, 0, depth)
                    /\ next_ver # VersionOfCountedOnly
               ELSE /\ next_ver = VersionText(major, minor, patch, rc + depth)
                    /\ next_ver = VersionOfCountedOnly

\* an emitting run whose only breaking signal sits in a commit off the
\* first-parent chain
C13_Witness ==
    /\ ImpactRun /\ Terminated /\ sink # sink0
    /\ Len(commits) = 2 /\ depth = 1
    /\ BreakingOnlyInExcluded
    /\ \E i \in 1..Len(commits) :
           ~commits[i].first_parent /\ BreakingSignal(commits[i])
    /\ is_breaking
    /\ EmittedValue = VersionText(major + 1, 0, 0, 1)


====
